---- MODULE Spec2Model ----
(***************************************************************************)
(* The wallet state machine of src/app.jsx: the App component's React      *)
(* state (users, session, wallet), the useMiner hook (earned, lastRef and  *)
(* its 1-second interval), the 3-second flush interval, localStorage, and  *)
(* the handlers of the register / login / logout forms and of the          *)
(* dashboard buttons.                                                      *)
(*                                                                         *)
(* Units.  Time is in whole seconds (the code's Date.now() is in ms and    *)
(* divides by 1000 before use).  Amounts are integers in units of 1e-10    *)
(* coin, so that  dt * (baseHash * boost) / 1e9  with baseHash = 12.5 is   *)
(* dt * 125 * boost; hashrate is therefore held in tenths of GH/s.         *)
(* Arithmetic is exact (the code's IEEE doubles are not modelled).         *)
(*                                                                         *)
(* Every action is one event-loop task: the handler or timer callback,     *)
(* followed by React's re-render and all the effects it triggers (Commit). *)
(* Timers fire no earlier than they are due and may fire late.             *)
(*                                                                         *)
(* A user record keeps id, name and email; referrer and createdAt are      *)
(* written once at registration and read nowhere, and are left out.        *)
(*                                                                         *)
(* ev and clicks are not program state: ev records which handler ran last, *)
(* with the alert() it raised and the email and referral code it was       *)
(* given, so that properties can speak of single steps; clicks counts the  *)
(* user's submissions and button presses where a run is cut off by         *)
(* MaxClicks.                                                              *)
(***************************************************************************)
EXTENDS Integers, Sequences, FiniteSets, TLC

VARIABLES users, session, wallet, earned, lastRef,
          accrualDue, flushDue, flushEarned,
          storeUsers, storeSession, storeWallet,
          clock, ev, clicks

vars == <<users, session, wallet, earned, lastRef, accrualDue, flushDue,
          flushEarned, storeUsers, storeSession, storeWallet, clock, ev, clicks>>

----------------------------------------------------------------------------
(* Bounds of the model *)

MaxSecs == 7
MaxSecsAll == 4
MaxSecsBonus == 3
MaxClicks == 5
StartDay == 19675

(* Program constants *)

DAY == 24 * 60 * 60
BONUS == 50000000
REFERRAL == 100000000
DefaultHashrate == 125
DefaultBoosts == 1
TickPeriod == 1
FlushPeriod == 3

\* Date.now() when the page is opened, and the one long suspension the model allows
T0 == StartDay * DAY
Suspend == DAY - 1

NoTimer == -1
NoSession == ""
Null == [null |-> TRUE]
NoUser == [undefined |-> TRUE]

\* uid() draws random identifiers; they are taken to be distinct
Ids == <<"id1", "id2", "id3", "id4">>
IdSet == {Ids[i] : i \in 1..Len(Ids)}

\* Form inputs after trim(); "" is a name of blanks only
Names == {"", "ann"}
Emails == {"a@x", "A@X", "b@x", "c@x"}
Passwords == {"pw"}
Refs == {"", "ann", "a@x", "id1"}

DefaultWallet ==
  [balance |-> 0, totalMined |-> 0, lastBonus |-> 0,
   hashrate |-> DefaultHashrate, mining |-> FALSE, boosts |-> DefaultBoosts]

----------------------------------------------------------------------------
(* Helpers *)

toLowerCase(s) == IF s = "A@X" THEN "a@x" ELSE s

now == clock

uid == Ids[Len(users) + 1]

\* Array.prototype.find over a sequence of user records, given the set of the
\* indices the predicate accepts: the first match, or undefined
find(us, hits) ==
  IF hits = {} THEN NoUser
  ELSE us[CHOOSE i \in hits : \A j \in hits : i <= j]

Me(us, s) == find(us, {i \in 1..Len(us) : us[i].id = s})

MeId(m) == IF m = NoUser THEN "undefined" ELSE m.id

read(sw, k, d) == IF sw[k] = Null THEN d ELSE sw[k]

\* wallet?.mining, wallet?.hashrate, wallet?.boosts as useMiner receives them
Active(w) == IF w = Null THEN "undefined" ELSE IF w.mining THEN "true" ELSE "false"
BaseHash(w) == IF w = Null THEN DefaultHashrate ELSE w.hashrate
Boost(w) == IF w = Null THEN DefaultBoosts ELSE w.boosts

Rate(w) == BaseHash(w) * Boost(w)

----------------------------------------------------------------------------
(* Pure parts of the handlers *)

\* handleRegister: the two early returns
missingField(name, email, pass) == name = "" \/ email = "" \/ pass = ""

\* variant: the emails are compared as typed
emailTakenExact(us, email) ==
  \E i \in 1..Len(us) : us[i].email = email

emailTaken(us, email) ==
  \E i \in 1..Len(us) : toLowerCase(us[i].email) = toLowerCase(email)

\* handleRegister: newUsers.find(u => u.name === ref || u.email === ref || u.id === ref)
refUserOf(newUsers, ref) ==
  find(newUsers, {i \in 1..Len(newUsers) :
                    \/ newUsers[i].name = ref
                    \/ newUsers[i].email = ref
                    \/ newUsers[i].id = ref})

\* variant: the referral is booked as mined coin too
creditReferralMined(rw) ==
  IF rw = Null THEN [balance |-> REFERRAL]
  ELSE [rw EXCEPT !.balance = @ + REFERRAL, !.totalMined = @ + REFERRAL]

\* handleRegister: rw = read(wk, null) || { balance: 0 }; rw.balance = (rw.balance || 0) + 0.01
creditReferral(rw) ==
  IF rw = Null THEN [balance |-> REFERRAL]
  ELSE [rw EXCEPT !.balance = @ + REFERRAL]

\* variant: the emails are compared as typed
loginUserExact(us, email) ==
  find(us, {i \in 1..Len(us) : us[i].email = email})

\* handleLogin: users.find(x => x.email.toLowerCase() === email.toLowerCase())
loginUser(us, email) ==
  find(us, {i \in 1..Len(us) : toLowerCase(us[i].email) = toLowerCase(email)})

\* variant: the gate is closed at exactly 24h
tooSoonInclusive(t, w) == t - w.lastBonus <= DAY

\* Dashboard, "Klaim Sekarang": left = now() - wallet.lastBonus; if (left < DAY) return alert(...)
tooSoon(t, w) == t - w.lastBonus < DAY

claimWallet(t, w) == [w EXCEPT !.lastBonus = t, !.balance = @ + BONUS]

\* variant: the withdrawal clears the mined total as well
withdrawAll(w) == [w EXCEPT !.balance = 0, !.totalMined = 0]

\* Dashboard, "Withdraw (demo)"
withdrawWallet(w) == [w EXCEPT !.balance = 0]

\* Dashboard, "Stop" / "Mulai Mining"
setMining(w, b) == [w EXCEPT !.mining = b]

\* variant: every tick is taken to be one second long
tickEarnedFixed(e, dt, w) == e + Rate(w)

\* useMiner, interval callback: setEarned(e => e + dt * rate)
tickEarned(e, dt, w) == e + dt * Rate(w)

\* variant: the flush stores the amount instead of adding it
flushWalletSet(w, add) ==
  IF w = Null THEN w
  ELSE [w EXCEPT !.balance = add, !.totalMined = @ + add]

\* App, flush interval callback: setWallet(w => ...) with add = the captured earned
flushWallet(w, add) ==
  IF w = Null THEN w
  ELSE [w EXCEPT !.balance = @ + add, !.totalMined = @ + add]

----------------------------------------------------------------------------
(* React re-render and effects after a handler has set                     *)
(* users = U, session = S, wallet = W, earned = E, lastRef = L, with the   *)
(* intervals at A, F and localStorage's wallet keys at SW.                 *)

\* effect [me?.id]: load the wallet of the current user
loadsWallet(meOld, me1) == MeId(me1) # MeId(meOld) /\ me1 # NoUser

\* effect [me?.id, wallet]: write(KEYS.wallet(me.id), wallet); runs in the render
\* that follows the handler and again in the render that follows the load
persistWallet(sw, idChanged, walletChanged, me1, w) ==
  IF (idChanged \/ walletChanged) /\ me1 # NoUser /\ w # Null
  THEN [sw EXCEPT ![me1.id] = w]
  ELSE sw

\* flush effect [earned, me, wallet?.mining]: is an interval left running
flushArmed(me1, w) == me1 # NoUser /\ w # Null

Commit(U, S, W, E, L, A, F, SW, event) ==
  LET meOld == Me(users, session)
      me1 == Me(U, S)
      load == loadsWallet(meOld, me1)
      W2 == IF load THEN read(SW, me1.id, DefaultWallet) ELSE W
      SW1 == persistWallet(SW, MeId(me1) # MeId(meOld), W # wallet, me1, W)
      SW2 == IF load THEN persistWallet(SW1, FALSE, TRUE, me1, W2) ELSE SW1
      minerChanged == \/ Active(W2) # Active(wallet)
                      \/ BaseHash(W2) # BaseHash(wallet)
                      \/ Boost(W2) # Boost(wallet)
      flush1 == E # earned \/ me1 # meOld \/ Active(W) # Active(wallet)
      flush2 == load /\ Active(W2) # Active(W)
      F1 == IF flush1 THEN (IF flushArmed(me1, W) THEN clock + FlushPeriod ELSE NoTimer)
            ELSE F
      F2 == IF flush2 THEN (IF flushArmed(me1, W2) THEN clock + FlushPeriod ELSE NoTimer)
            ELSE F1
  IN /\ users' = U
     /\ session' = S
     /\ wallet' = W2
     /\ earned' = E
     /\ storeUsers' = U
     /\ storeSession' = S
     /\ storeWallet' = SW2
     /\ accrualDue' = IF minerChanged
                      THEN (IF Active(W2) = "true" THEN clock + TickPeriod ELSE NoTimer)
                      ELSE A
     /\ lastRef' = IF Active(W2) # Active(wallet) THEN now ELSE L
     /\ flushDue' = F2
     /\ flushEarned' = IF F2 = NoTimer THEN 0
                       ELSE IF flush1 \/ flush2 THEN E ELSE flushEarned
     /\ clock' = clock
     /\ ev' = event

\* ev: the handler or callback that ran last, the alert() it raised and the
\* email and referral code it was given
Event(op, kind, email, ref) == [op |-> op, alert |-> kind, email |-> email, ref |-> ref]

Alert(op, kind, email) ==
  /\ ev' = Event(op, kind, email, "")
  /\ UNCHANGED <<users, session, wallet, earned, lastRef, accrualDue, flushDue,
                 flushEarned, storeUsers, storeSession, storeWallet, clock>>

----------------------------------------------------------------------------
(* Operations *)

Register(name, email, pass, ref) ==
  /\ Len(users) < Len(Ids)
  /\ ref # uid
  /\ IF missingField(name, email, pass) THEN Alert("register", "MissingField", email)
     ELSE IF emailTaken(users, email) THEN Alert("register", "DuplicateEmail", email)
     ELSE LET id == uid
              newUser == [id |-> id, name |-> name, email |-> email]
              newUsers == Append(users, newUser)
              SW0 == [storeWallet EXCEPT ![id] = DefaultWallet]
              refUser == IF ref = "" THEN NoUser ELSE refUserOf(newUsers, ref)
              SW1 == IF refUser = NoUser THEN SW0
                     ELSE [SW0 EXCEPT ![refUser.id] = creditReferral(read(SW0, refUser.id, Null))]
          IN Commit(newUsers, id, wallet, earned, lastRef, accrualDue, flushDue, SW1,
                    Event("register", "none", email, ref))

Login(email) ==
  IF email = "" THEN Alert("login", "MissingField", email)
  ELSE LET u == loginUser(users, email)
       IN IF u = NoUser THEN Alert("login", "NotFound", email)
          ELSE Commit(users, u.id, wallet, earned, lastRef, accrualDue, flushDue,
                      storeWallet, Event("login", "none", email, ""))

Logout ==
  /\ Me(users, session) # NoUser
  /\ Commit(users, NoSession, wallet, earned, lastRef, accrualDue, flushDue,
            storeWallet, Event("logout", "none", "", ""))

\* the Dashboard is rendered for: path === "#/dashboard" && me && wallet
DashboardShown == Me(users, session) # NoUser /\ wallet # Null

StartMining ==
  /\ DashboardShown
  /\ ~wallet.mining
  /\ Commit(users, session, setMining(wallet, TRUE), earned, lastRef, accrualDue,
            flushDue, storeWallet, Event("start", "none", "", ""))

StopMining ==
  /\ DashboardShown
  /\ wallet.mining
  /\ Commit(users, session, setMining(wallet, FALSE), earned, lastRef, accrualDue,
            flushDue, storeWallet, Event("stop", "none", "", ""))

Withdraw ==
  /\ DashboardShown
  /\ Commit(users, session, withdrawWallet(wallet), earned, lastRef, accrualDue,
            flushDue, storeWallet, Event("withdraw", "none", "", ""))

ClaimBonus ==
  /\ DashboardShown
  /\ IF tooSoon(now, wallet) THEN Alert("claim", "TooSoon", "")
     ELSE Commit(users, session, claimWallet(now, wallet), earned, lastRef,
                 accrualDue, flushDue, storeWallet, Event("claim", "none", "", ""))

\* useMiner's setInterval(..., 1000) fires
AccrualTick ==
  /\ accrualDue # NoTimer
  /\ now >= accrualDue
  /\ LET tnow == now
         dt == tnow - lastRef
     IN Commit(users, session, wallet, tickEarned(earned, dt, wallet), tnow,
               tnow + TickPeriod, flushDue, storeWallet, Event("tick", "none", "", ""))

\* App's setInterval(..., 3000) fires; a timer started later with a longer
\* timeout runs after the timers started before it with a shorter one
FlushTick ==
  /\ flushDue # NoTimer
  /\ now >= flushDue
  /\ accrualDue # NoTimer => flushDue < accrualDue
  /\ Commit(users, session, flushWallet(wallet, flushEarned), earned, lastRef,
            accrualDue, now + FlushPeriod, storeWallet, Event("flush", "none", "", ""))

\* wall-clock time passes: a second, or one long suspension of the page
Advance(d, secs) ==
  /\ IF d = 1 THEN (clock - T0) % Suspend < secs ELSE clock - T0 < Suspend
  /\ clock' = clock + d
  /\ ev' = Event("advance", "none", "", "")
  /\ UNCHANGED <<users, session, wallet, earned, lastRef, accrualDue, flushDue,
                 flushEarned, storeUsers, storeSession, storeWallet>>

----------------------------------------------------------------------------

Init ==
  /\ users = <<>>
  /\ session = NoSession
  /\ wallet = Null
  /\ earned = 0
  /\ clock = T0
  /\ lastRef = T0
  /\ accrualDue = NoTimer
  /\ flushDue = NoTimer
  /\ flushEarned = 0
  /\ storeUsers = <<>>
  /\ storeSession = NoSession
  /\ storeWallet = [k \in IdSet |-> Null]
  /\ ev = Event("init", "none", "", "")
  /\ clicks = 0

\* A form submission or a button press, counted; a timer or the clock, not counted
Click(A) == clicks < MaxClicks /\ A /\ clicks' = clicks + 1
Free(A) == A /\ UNCHANGED clicks

\* Every operation, two registrants
Next ==
  \/ \E email \in {"a@x", "b@x"}, ref \in {"", "ann"} :
       Click(Register("ann", email, "pw", ref))
  \/ \E email \in {"a@x", "b@x"} : Click(Login(email))
  \/ Click(Logout)
  \/ Click(StartMining)
  \/ Click(StopMining)
  \/ Click(Withdraw)
  \/ Click(ClaimBonus)
  \/ Free(AccrualTick)
  \/ Free(FlushTick)
  \/ Free(Advance(1, MaxSecsAll))

Spec == Init /\ [][Next]_vars

\* The miner and its two intervals over a few seconds, two registrants
NextMiner ==
  \/ \E email \in {"a@x", "b@x"} : Free(Register("ann", email, "pw", ""))
  \/ \E email \in {"a@x", "b@x"} : Free(Login(email))
  \/ Free(Logout)
  \/ Free(StartMining)
  \/ Free(StopMining)
  \/ Free(Withdraw)
  \/ Free(AccrualTick)
  \/ Free(FlushTick)
  \/ Free(Advance(1, MaxSecs))

SpecMiner == Init /\ [][NextMiner]_vars

\* The miner as above, where only the first registrant ever presses Mulai Mining
NextIsolation ==
  \/ \E email \in {"a@x", "b@x"} : Free(Register("ann", email, "pw", ""))
  \/ \E email \in {"a@x", "b@x"} : Free(Login(email))
  \/ Free(Logout)
  \/ Free(Len(users) >= 1 /\ session = users[1].id /\ StartMining)
  \/ Free(StopMining)
  \/ Free(Withdraw)
  \/ Free(AccrualTick)
  \/ Free(FlushTick)
  \/ Free(Advance(1, MaxSecs))

SpecIsolation == Init /\ [][NextIsolation]_vars

\* The identity registry with every form input, the clock standing still
NextRegistry ==
  \/ \E name \in Names, email \in Emails, pass \in Passwords, ref \in Refs :
       Free(Register(name, email, pass, ref))
  \/ \E email \in Emails : Free(Login(email))
  \/ Free(Logout)
  \/ Free(ClaimBonus)
  \/ Free(Withdraw)

SpecRegistry == Init /\ [][NextRegistry]_vars

\* The daily bonus across a day, one registrant
NextBonus ==
  \/ Free(Register("ann", "a@x", "pw", ""))
  \/ Free(Login("a@x"))
  \/ Free(Logout)
  \/ Free(StartMining)
  \/ Free(StopMining)
  \/ Free(Withdraw)
  \/ Free(ClaimBonus)
  \/ Free(AccrualTick)
  \/ Free(FlushTick)
  \/ \E d \in {1, Suspend} : Free(Advance(d, MaxSecsBonus))

SpecBonus == Init /\ [][NextBonus]_vars

----------------------------------------------------------------------------
(* Vocabulary of the properties, stated without the operators above *)

Registered == {users[i].id : i \in 1..Len(users)}

\* two emails are equal ignoring case
SameEmail(a, b) == a = b \/ {a, b} = {"a@x", "A@X"}

\* the fields of a wallet other than its balance
Frame(w) == <<w.totalMined, w.lastBonus, w.hashrate, w.boosts, w.mining>>

\* the wallet on screen is the one stored for the user of the session (holds
\* in every reachable state: each action ends with the persist effect)
InSync == DashboardShown => storeWallet[session] = wallet

----------------------------------------------------------------------------
(* C1: with one registered user, what the flush has added to the wallet's  *)
(* totalMined never exceeds the sum of the increments the accrual tick     *)
(* computed (earned): no increment is credited twice.                      *)
C1_CreditedOnce ==
  Len(users) = 1 => storeWallet[users[1].id].totalMined <= earned

(* C2: an accrual tick that observes d >= 0 seconds since lastRef adds     *)
(* exactly d * hashrate * boosts (in 1e-10 coin) to earned and moves       *)
(* lastRef to the observation time; and two ticks observing d1 and d2      *)
(* accrue what one tick observing d1 + d2 accrues.                         *)
C2_TickStep ==
  ev'.op = "tick" =>
    LET d == clock - lastRef
    IN /\ wallet # Null /\ wallet.mining
       /\ d >= 0
       /\ earned' = earned + d * wallet.hashrate * wallet.boosts
       /\ lastRef' = clock
       /\ clock' = clock

C2_Additive ==
  (wallet # Null /\ wallet.mining) =>
    \A d1, d2 \in 0..MaxSecs :
      tickEarned(tickEarned(earned, d1, wallet), d2, wallet)
        = earned + (d1 + d2) * wallet.hashrate * wallet.boosts

C2_Accrual == [][C2_TickStep]_vars /\ []C2_Additive

\* two ticks in a row have run, the later one late, and three seconds are accrued
C2_Witness ==
  /\ ev.op = "tick"
  /\ wallet # Null /\ wallet.mining
  /\ earned = 3 * wallet.hashrate * wallet.boosts
  /\ lastRef = T0 + 3
  /\ accrualDue = lastRef + TickPeriod

(* C3: while the mining flag of the wallet on screen is and stays false,   *)
(* no timer callback (accrual or flush) increases its balance or its       *)
(* totalMined.                                                             *)
C3_StoppedStep ==
  (/\ ev'.op \in {"tick", "flush"}
   /\ wallet # Null /\ ~wallet.mining
   /\ wallet' # Null /\ ~wallet'.mining)
  => /\ wallet'.balance = wallet.balance
     /\ wallet'.totalMined = wallet.totalMined

C3_NoCreditWhileStopped == [][C3_StoppedStep]_vars

(* C4: a bonus claim with now - lastBonus < 24h raises TooSoon and leaves  *)
(* the wallet as it was; a claim with now - lastBonus >= 24h sets          *)
(* lastBonus to now and adds exactly the bonus constant to the balance,    *)
(* nothing else.                                                           *)
C4_ClaimStep ==
  ev'.op = "claim" =>
    IF clock - wallet.lastBonus >= 24 * 60 * 60
    THEN /\ ev'.alert = "none"
         /\ wallet'.lastBonus = clock
         /\ wallet'.balance = wallet.balance + BONUS
         /\ <<wallet'.totalMined, wallet'.hashrate, wallet'.boosts, wallet'.mining>>
              = <<wallet.totalMined, wallet.hashrate, wallet.boosts, wallet.mining>>
         /\ storeWallet' = [storeWallet EXCEPT ![session] = wallet']
    ELSE /\ ev'.alert = "TooSoon"
         /\ wallet' = wallet
         /\ storeWallet' = storeWallet

C4_DailyBonus == [][C4_ClaimStep]_vars

\* a first claim at T0 (lastBonus = 0), a second exactly 24h later, and a third
\* right after it, which was refused
C4_Witness ==
  /\ ev.op = "claim" /\ ev.alert = "TooSoon"
  /\ clock = T0 + DAY
  /\ wallet.lastBonus = T0 + DAY
  /\ wallet.balance = 2 * BONUS

(* C5 as stated: a successful registration whose referral code equals an   *)
(* existing user's name adds exactly the referral constant to that user's  *)
(* balance and leaves the user's totalMined alone; a code that matches no  *)
(* user changes no existing user's wallet.                                 *)
C5_EveryNamesakeStep ==
  (ev'.op = "register" /\ ev'.alert = "none") =>
    LET r == ev'.ref
        Match(u) == r # "" /\ (u.name = r \/ u.email = r \/ u.id = r)
    IN /\ \A i \in 1..Len(users) :
            (r # "" /\ users[i].name = r) =>
              /\ storeWallet'[users[i].id].balance
                   = storeWallet[users[i].id].balance + REFERRAL
              /\ storeWallet'[users[i].id].totalMined
                   = storeWallet[users[i].id].totalMined
       /\ (\A i \in 1..Len(users') : ~Match(users'[i])) =>
            \A i \in 1..Len(users) :
              storeWallet'[users[i].id] = storeWallet[users[i].id]

C5_EveryNamesake == [][C5_EveryNamesakeStep]_vars

(* C5 amended: a successful registration with a referral code adds exactly *)
(* the referral constant to the balance of one existing user, the          *)
(* earliest-registered one whose name, email or id equals the code, and    *)
(* changes nothing else of that wallet; every other existing user's wallet *)
(* is unchanged, also when the code matches no user.                       *)
C5_FirstMatchStep ==
  (ev'.op = "register" /\ ev'.alert = "none") =>
    LET r == ev'.ref
        Match(u) == r # "" /\ (u.name = r \/ u.email = r \/ u.id = r)
        Earliest(i) == Match(users[i]) /\ \A j \in 1..(i - 1) : ~Match(users[j])
    IN \A i \in 1..Len(users) :
         LET before == storeWallet[users[i].id]
             after == storeWallet'[users[i].id]
         IN IF Earliest(i)
            THEN /\ after.balance = before.balance + REFERRAL
                 /\ Frame(after) = Frame(before)
            ELSE after = before

C5_FirstMatch == [][C5_FirstMatchStep]_vars

\* the third registrant names "ann", two users bear that name, the first was paid
\* (on top of a daily bonus) and the second was not
C5_Witness ==
  /\ ev.op = "register" /\ ev.alert = "none" /\ ev.ref = "ann"
  /\ Len(users) = 3
  /\ users[1].name = "ann" /\ users[2].name = "ann"
  /\ storeWallet[users[1].id].balance = BONUS + REFERRAL
  /\ storeWallet[users[2].id].balance = 0
  /\ storeWallet[users[2].id].lastBonus = 0

(* C6: right after a successful registration the new user's wallet, stored *)
(* and on screen, has the zeroed defaults, whatever the referral code.     *)
C6_NewWalletZeroed ==
  (ev.op = "register" /\ ev.alert = "none") =>
    /\ storeWallet[session] = DefaultWallet
    /\ wallet = DefaultWallet

(* C7: no two registered users have emails equal ignoring case; a          *)
(* registration whose email equals an existing user's ignoring case is     *)
(* refused (DuplicateEmail, or MissingField when the name is blank), adds  *)
(* no user, creates no wallet and leaves the session alone.                *)
C7_UniqueEmails ==
  \A i, j \in 1..Len(users) :
    SameEmail(users[i].email, users[j].email) => i = j

C7_DuplicateStep ==
  (/\ ev'.op = "register"
   /\ \E i \in 1..Len(users) : SameEmail(users[i].email, ev'.email))
  => /\ ev'.alert \in {"DuplicateEmail", "MissingField"}
     /\ UNCHANGED <<users, session, wallet, storeUsers, storeSession, storeWallet>>

C7_CompleteStep ==
  (ev'.op = "register" /\ ev'.alert = "DuplicateEmail") =>
     \E i \in 1..Len(users) : SameEmail(users[i].email, ev'.email)

C7_NoDuplicateEmail ==
  []C7_UniqueEmails /\ [][C7_DuplicateStep]_vars /\ [][C7_CompleteStep]_vars

\* "A@X" was refused while "a@x" is registered and somebody else is logged in
C7_Witness ==
  /\ ev.op = "register" /\ ev.alert = "DuplicateEmail" /\ ev.email = "A@X"
  /\ Len(users) = 2
  /\ users[1].email = "a@x"
  /\ session = users[2].id

(* C8: a stored wallet's balance never decreases except by the withdrawal  *)
(* of the logged-in user, which sets it to zero; its totalMined never      *)
(* decreases; both are never negative.  The same holds of the wallet on    *)
(* screen while the session stays with one user.                           *)
C8_NonNegative ==
  /\ \A id \in Registered :
       storeWallet[id].balance >= 0 /\ storeWallet[id].totalMined >= 0
  /\ wallet # Null => wallet.balance >= 0 /\ wallet.totalMined >= 0

C8_MonotoneStep ==
  /\ \A id \in Registered :
       /\ storeWallet'[id].totalMined >= storeWallet[id].totalMined
       /\ \/ storeWallet'[id].balance >= storeWallet[id].balance
          \/ /\ ev'.op = "withdraw"
             /\ id = session
             /\ storeWallet'[id].balance = 0
  /\ (wallet # Null /\ wallet' # Null /\ session' = session /\ session # NoSession) =>
       /\ wallet'.totalMined >= wallet.totalMined
       /\ \/ wallet'.balance >= wallet.balance
          \/ ev'.op = "withdraw" /\ wallet'.balance = 0

C8_Monotone == []C8_NonNegative /\ [][C8_MonotoneStep]_vars

\* the second user has mined, been credited by the flush and withdrawn, while the
\* first keeps the referral the second one's registration paid
C8_Witness ==
  /\ ev.op = "withdraw"
  /\ Len(users) = 2
  /\ session = users[2].id
  /\ wallet.balance = 0
  /\ wallet.totalMined > 0
  /\ storeWallet[users[1].id].balance = REFERRAL

(* C9: withdraw sets the balance to 0, whatever it was, and changes no     *)
(* other field of the wallet, on screen and in the store.                  *)
C9_WithdrawStep ==
  ev'.op = "withdraw" =>
    /\ wallet'.balance = 0
    /\ Frame(wallet') = Frame(wallet)
    /\ storeWallet' = [storeWallet EXCEPT ![session] = wallet']
    /\ UNCHANGED <<users, session, earned>>

C9_Withdraw == [][C9_WithdrawStep]_vars

\* a balance holding mined coin and a bonus has been withdrawn
C9_Witness ==
  /\ ev.op = "withdraw"
  /\ Len(users) = 1
  /\ wallet.balance = 0
  /\ wallet.totalMined > 0
  /\ wallet.lastBonus > 0

(* C10: a login whose email matches no registered user ignoring case       *)
(* raises NotFound and leaves the session as it was; a login with a        *)
(* registered email makes the session that user's id.                      *)
C10_LoginStep ==
  ev'.op = "login" =>
    IF \E i \in 1..Len(users) : SameEmail(users[i].email, ev'.email)
    THEN /\ ev'.alert = "none"
         /\ \A i \in 1..Len(users) :
              SameEmail(users[i].email, ev'.email) => session' = users[i].id
         /\ users' = users
    ELSE /\ ev'.alert = "NotFound"
         /\ UNCHANGED <<users, session, wallet, storeUsers, storeSession, storeWallet>>

C10_Login == [][C10_LoginStep]_vars

\* an unregistered email was refused while the first user stays logged in
C10_Witness ==
  /\ ev.op = "login" /\ ev.alert = "NotFound" /\ ev.email = "c@x"
  /\ Len(users) = 2
  /\ session = users[1].id
  /\ storeSession = session

(* C11: a user whose own mining flag was never true gains no mined amount: *)
(* when only the first user ever mines, nothing that accrued for the first *)
(* user is added to the second user's balance or totalMined, whatever the  *)
(* logins, logouts and registrations in between.                           *)
C11_Isolated ==
  Len(users) >= 2 =>
    /\ storeWallet[users[2].id].totalMined = 0
    /\ storeWallet[users[2].id].balance = 0
    /\ session = users[2].id => wallet.totalMined = 0 /\ wallet.balance = 0

====
